---- MODULE Spec2Model ----
(***************************************************************************)
(* Nginx "combined" access-log parser and user-agent enricher (main.py).   *)
(*                                                                         *)
(* A Python str is a sequence of characters; a character is a TLA+ string  *)
(* (one ASCII character, or the code point name of a non-ASCII one).       *)
(* Optional[T] is a tuple: None is the empty tuple and Some(v) is <<v>>.   *)
(***************************************************************************)
EXTENDS Integers, Sequences, FiniteSets, TLC

VARIABLES
    ua_parse,     \* the optional user-agents lookup: None, or Some(its answer)
    ua_string,    \* argument of the last enrich_user_agent call
    info,         \* UAInfo returned by the last enrich_user_agent call
    ua_called,    \* TRUE once enrich_user_agent has returned
    lines,        \* process_stream: the lines consumed so far
    records,      \* process_stream: records
    errors,       \* process_stream: errors
    returned,     \* process_stream: TRUE once it has returned
    line,         \* argument of the last parse_line call
    line_number,  \* argument of the last parse_line call
    rec,          \* record returned by the last parse_line call
    err,          \* error reason returned by the last parse_line call
    pl_called,    \* TRUE once parse_line has returned
    time_in,      \* argument of the last parse_time_local call
    time_out,     \* string returned by the last parse_time_local call
    time_called,  \* TRUE once parse_time_local has returned
    request_in,   \* argument of the last parse_request call
    request_out,  \* dict returned by the last parse_request call
    request_called \* TRUE once parse_request has returned

vars == <<ua_parse, ua_string, info, ua_called, lines, records, errors,
          returned, line, line_number, rec, err, pl_called, time_in,
          time_out, time_called, request_in, request_out, request_called>>

----------------------------------------------------------------------------
(* Python values *)

None == <<>>
Some(v) == <<v>>
Get(o) == o[1]

\* Python's `x or None` for a str x
OrNone(x) == IF x = <<>> THEN None ELSE Some(x)

UpperLetters == <<"A","B","C","D","E","F","G","H","I","J","K","L","M","N","O","P","Q","R","S","T","U","V","W","X","Y","Z">>
LowerLetters == <<"a","b","c","d","e","f","g","h","i","j","k","l","m","n","o","p","q","r","s","t","u","v","w","x","y","z">>

\* str.lower() and str.upper(), one character
Lower(c) ==
    IF \E i \in 1..26 : UpperLetters[i] = c
    THEN LowerLetters[CHOOSE i \in 1..26 : UpperLetters[i] = c]
    ELSE c

Upper(c) ==
    IF \E i \in 1..26 : LowerLetters[i] = c
    THEN UpperLetters[CHOOSE i \in 1..26 : LowerLetters[i] = c]
    ELSE c

ToLower(s) == [i \in 1..Len(s) |-> Lower(s[i])]
ToUpper(s) == [i \in 1..Len(s) |-> Upper(s[i])]

\* n == s[i : i + len(n)], i counted from 1
MatchAt(s, i, n) == i + Len(n) - 1 <= Len(s) /\ SubSeq(s, i, i + Len(n) - 1) = n

\* Python's `n in s`
Contains(s, n) == \E i \in 1..(Len(s) - Len(n) + 1) : MatchAt(s, i, n)

StartsWith(s, n) == MatchAt(s, 1, n)

\* str.replace("_", ".")
ReplaceUnderscore(s) == [i \in 1..Len(s) |-> IF s[i] = "_" THEN "." ELSE s[i]]

AsciiDigits == {"0", "1", "2", "3", "4", "5", "6", "7", "8", "9"}

\* str.isspace(), and \s of a str pattern
IsSpace(c) == c \in {" ", "\t", "\n", "\r"}

\* the character classes of the patterns of main.py
InClass(cls, c) ==
    CASE cls = "space"       -> IsSpace(c)                      \* \s
      [] cls = "nonspace"    -> ~IsSpace(c)                     \* \S
      [] cls = "not_bracket" -> c # "]"                         \* [^\]]
      [] cls = "not_quote"   -> c # "\""                        \* [^"]
      [] cls = "digits_._"   -> c \in AsciiDigits \cup {"_", "."}   \* [0-9_\.]
      [] cls = "digits_."    -> c \in AsciiDigits \cup {"."}        \* [0-9\.]
      [] cls = "digits__"    -> c \in AsciiDigits \cup {"_"}        \* [0-9_]

\* end (exclusive) of the longest run of characters of the class from i
Span(s, i, cls) ==
    CHOOSE j \in i..(Len(s) + 1) :
        /\ (j = Len(s) + 1 \/ ~InClass(cls, s[j]))
        /\ \A k \in i..(j - 1) : InClass(cls, s[k])

----------------------------------------------------------------------------
(* UAInfo *)

\* UAInfo.empty()
UAInfo_empty ==
    [browser |-> [family |-> None, version |-> None],
     os      |-> [family |-> None, version |-> None],
     device  |-> [family |-> None, type |-> None, is_mobile |-> None,
                  is_tablet |-> None, is_pc |-> None, is_bot |-> None]]

\* re.search(prefix + "(" + class + "+)", s): the leftmost position where the
\* prefix is followed by at least one character of the class, or 0
SearchPos(s, prefix, cls) ==
    LET hits == {i \in 1..Len(s) :
                    /\ MatchAt(s, i, prefix)
                    /\ i + Len(prefix) <= Len(s)
                    /\ InClass(cls, s[i + Len(prefix)])}
    IN  IF hits = {} THEN 0 ELSE CHOOSE i \in hits : \A j \in hits : i <= j

\* m.group(1) of the match found at position i
SearchGroup(s, i, prefix, cls) ==
    SubSeq(s, i + Len(prefix), Span(s, i + Len(prefix), cls) - 1)

_guess_windows_version_from_ua(ua_lc) ==
    IF Contains(ua_lc, <<"w","i","n","d","o","w","s"," ","n","t"," ","6",".","1">>) THEN Some(<<"7">>)
    ELSE IF Contains(ua_lc, <<"w","i","n","d","o","w","s"," ","n","t"," ","6",".","2">>) THEN Some(<<"8">>)
    ELSE IF Contains(ua_lc, <<"w","i","n","d","o","w","s"," ","n","t"," ","6",".","3">>) THEN Some(<<"8",".","1">>)
    ELSE IF Contains(ua_lc, <<"w","i","n","d","o","w","s"," ","n","t"," ","1","0",".","0">>)
         THEN IF Contains(ua_lc, <<"w","i","n","d","o","w","s"," ","1","1">>) THEN Some(<<"1","1">>) ELSE Some(<<"1","0">>)
    ELSE None

\* main.py:184-194, the browser family of the heuristic fallback
HeuristicBrowser(ua_lc) ==
    IF \/ Contains(ua_lc, <<"e","d","g","/">>)
       \/ Contains(ua_lc, <<" ","e","d","g","e","/">>)
       \/ Contains(ua_lc, <<" ","e","d","g"," ">>)
    THEN [family |-> Some(<<"E","d","g","e">>), version |-> None]
    ELSE IF Contains(ua_lc, <<"o","p","r","/">>) \/ Contains(ua_lc, <<" ","o","p","e","r","a">>)
    THEN [family |-> Some(<<"O","p","e","r","a">>), version |-> None]
    ELSE IF /\ Contains(ua_lc, <<"c","h","r","o","m","e","/">>)
            /\ ~Contains(ua_lc, <<"e","d","g">>)
            /\ ~Contains(ua_lc, <<"o","p","r">>)
    THEN [family |-> Some(<<"C","h","r","o","m","e">>), version |-> None]
    ELSE IF Contains(ua_lc, <<"f","i","r","e","f","o","x","/">>)
    THEN [family |-> Some(<<"F","i","r","e","f","o","x">>), version |-> None]
    ELSE IF Contains(ua_lc, <<"s","a","f","a","r","i","/">>) /\ ~Contains(ua_lc, <<"c","h","r","o","m","e">>)
    THEN [family |-> Some(<<"S","a","f","a","r","i">>), version |-> None]
    ELSE [family |-> None, version |-> None]

\* main.py:212, re.search(r"iphone os ([0-9_]+)") or
\* re.search(r"cpu (?:iphone )?os ([0-9_]+)")
IosVersion(ua_lc) ==
    LET p1 == <<"i","p","h","o","n","e"," ","o","s"," ">>
        p2 == <<"c","p","u"," ","i","p","h","o","n","e"," ","o","s"," ">>
        p3 == <<"c","p","u"," ","o","s"," ">>
        i1 == SearchPos(ua_lc, p1, "digits__")
        i2 == SearchPos(ua_lc, p2, "digits__")
        i3 == SearchPos(ua_lc, p3, "digits__")
    IN  IF i1 # 0
        THEN Some(ReplaceUnderscore(SearchGroup(ua_lc, i1, p1, "digits__")))
        ELSE IF i2 # 0 /\ (i3 = 0 \/ i2 < i3)
        THEN Some(ReplaceUnderscore(SearchGroup(ua_lc, i2, p2, "digits__")))
        ELSE IF i3 # 0
        THEN Some(ReplaceUnderscore(SearchGroup(ua_lc, i3, p3, "digits__")))
        ELSE None

\* main.py:196-216, the OS family and version of the heuristic fallback
HeuristicOS(ua_lc) ==
    IF Contains(ua_lc, <<"w","i","n","d","o","w","s">>)
    THEN [family |-> Some(<<"W","i","n","d","o","w","s">>),
          version |-> _guess_windows_version_from_ua(ua_lc)]
    ELSE IF Contains(ua_lc, <<"m","a","c"," ","o","s"," ","x">>) \/ Contains(ua_lc, <<"m","a","c","i","n","t","o","s","h">>)
    THEN LET p == <<"m","a","c"," ","o","s"," ","x"," ">>
             i == SearchPos(ua_lc, p, "digits_._")
         IN  [family |-> Some(<<"m","a","c","O","S">>),
              version |-> IF i # 0
                          THEN Some(ReplaceUnderscore(SearchGroup(ua_lc, i, p, "digits_._")))
                          ELSE None]
    ELSE IF Contains(ua_lc, <<"a","n","d","r","o","i","d">>)
    THEN LET p == <<"a","n","d","r","o","i","d"," ">>
             i == SearchPos(ua_lc, p, "digits_.")
         IN  [family |-> Some(<<"A","n","d","r","o","i","d">>),
              version |-> IF i # 0
                          THEN Some(SearchGroup(ua_lc, i, p, "digits_."))
                          ELSE None]
    ELSE IF \/ Contains(ua_lc, <<"i","p","h","o","n","e">>)
            \/ Contains(ua_lc, <<"i","p","a","d">>)
            \/ Contains(ua_lc, <<"c","p","u"," ","i","p","h","o","n","e"," ","o","s">>)
            \/ Contains(ua_lc, <<"c","p","u"," ","o","s">>)
    THEN [family |-> Some(<<"i","O","S">>), version |-> IosVersion(ua_lc)]
    ELSE IF Contains(ua_lc, <<"l","i","n","u","x">>)
    THEN [family |-> Some(<<"L","i","n","u","x">>), version |-> None]
    ELSE [family |-> None, version |-> None]

DeviceFlags(type, mobile, tablet, pc, bot, family) ==
    [family |-> family, type |-> Some(type), is_mobile |-> Some(mobile),
     is_tablet |-> Some(tablet), is_pc |-> Some(pc), is_bot |-> Some(bot)]

\* HeuristicDevice with the Mobile test moved before the Tablet test
HeuristicDevice_mobileFirst(ua_lc) ==
    IF \/ Contains(ua_lc, <<"b","o","t">>)
       \/ Contains(ua_lc, <<"s","p","i","d","e","r">>)
       \/ Contains(ua_lc, <<"c","r","a","w","l","e","r">>)
    THEN DeviceFlags(<<"B","o","t">>, FALSE, FALSE, FALSE, TRUE, None)
    ELSE IF \/ Contains(ua_lc, <<"m","o","b","i","l","e">>)
            \/ Contains(ua_lc, <<"i","p","h","o","n","e">>)
            \/ (Contains(ua_lc, <<"a","n","d","r","o","i","d">>) /\ Contains(ua_lc, <<"m","o","b","i","l","e">>))
    THEN DeviceFlags(<<"M","o","b","i","l","e">>, TRUE, FALSE, FALSE, FALSE,
                     IF Contains(ua_lc, <<"i","p","h","o","n","e">>) THEN Some(<<"i","P","h","o","n","e">>) ELSE None)
    ELSE IF \/ Contains(ua_lc, <<"i","p","a","d">>)
            \/ Contains(ua_lc, <<"t","a","b","l","e","t">>)
            \/ (Contains(ua_lc, <<"a","n","d","r","o","i","d">>) /\ Contains(ua_lc, <<"t","a","b","l","e","t">>))
    THEN DeviceFlags(<<"T","a","b","l","e","t">>, FALSE, TRUE, FALSE, FALSE,
                     IF Contains(ua_lc, <<"i","p","a","d">>) THEN Some(<<"i","P","a","d">>) ELSE None)
    ELSE IF \/ Contains(ua_lc, <<"w","i","n","d","o","w","s">>)
            \/ Contains(ua_lc, <<"m","a","c"," ","o","s"," ","x">>)
            \/ Contains(ua_lc, <<"l","i","n","u","x">>)
    THEN DeviceFlags(<<"P","C">>, FALSE, FALSE, TRUE, FALSE, None)
    ELSE DeviceFlags(<<"O","t","h","e","r">>, FALSE, FALSE, FALSE, FALSE, None)

\* main.py:218-254, the device type of the heuristic fallback
HeuristicDevice(ua_lc) ==
    IF \/ Contains(ua_lc, <<"b","o","t">>)
       \/ Contains(ua_lc, <<"s","p","i","d","e","r">>)
       \/ Contains(ua_lc, <<"c","r","a","w","l","e","r">>)
    THEN DeviceFlags(<<"B","o","t">>, FALSE, FALSE, FALSE, TRUE, None)
    ELSE IF \/ Contains(ua_lc, <<"i","p","a","d">>)
            \/ Contains(ua_lc, <<"t","a","b","l","e","t">>)
            \/ (Contains(ua_lc, <<"a","n","d","r","o","i","d">>) /\ Contains(ua_lc, <<"t","a","b","l","e","t">>))
    THEN DeviceFlags(<<"T","a","b","l","e","t">>, FALSE, TRUE, FALSE, FALSE,
                     IF Contains(ua_lc, <<"i","p","a","d">>) THEN Some(<<"i","P","a","d">>) ELSE None)
    ELSE IF \/ Contains(ua_lc, <<"m","o","b","i","l","e">>)
            \/ Contains(ua_lc, <<"i","p","h","o","n","e">>)
            \/ (Contains(ua_lc, <<"a","n","d","r","o","i","d">>) /\ Contains(ua_lc, <<"m","o","b","i","l","e">>))
    THEN DeviceFlags(<<"M","o","b","i","l","e">>, TRUE, FALSE, FALSE, FALSE,
                     IF Contains(ua_lc, <<"i","p","h","o","n","e">>) THEN Some(<<"i","P","h","o","n","e">>) ELSE None)
    ELSE IF \/ Contains(ua_lc, <<"w","i","n","d","o","w","s">>)
            \/ Contains(ua_lc, <<"m","a","c"," ","o","s"," ","x">>)
            \/ Contains(ua_lc, <<"l","i","n","u","x">>)
    THEN DeviceFlags(<<"P","C">>, FALSE, FALSE, TRUE, FALSE, None)
    ELSE DeviceFlags(<<"O","t","h","e","r">>, FALSE, FALSE, FALSE, FALSE, None)

\* main.py:136-179, the library-backed strategy; ua is the lookup's answer
LibraryInfo(ua_str, ua) ==
    LET dtype == IF ua.is_mobile THEN <<"M","o","b","i","l","e">>
                 ELSE IF ua.is_tablet THEN <<"T","a","b","l","e","t">>
                 ELSE IF ua.is_pc THEN <<"P","C">>
                 ELSE IF ua.is_bot THEN <<"B","o","t">>
                 ELSE <<"O","t","h","e","r">>
        ua_lc == ToLower(ua_str)
        looks_like_tablet ==
            \/ Contains(ua_lc, <<"t","a","b","l","e","t">>)
            \/ Contains(ua_lc, <<"i","p","a","d">>)
            \/ Contains(ua_lc, <<" ","s","m","-","t">>)
            \/ Contains(ua_lc, <<"s","m","-","t">>)
    IN  [browser |-> [family  |-> OrNone(ua.browser_family),
                      version |-> OrNone(ua.browser_version_string)],
         os      |-> [family  |-> OrNone(ua.os_family),
                      version |-> OrNone(ua.os_version_string)],
         device  |->
            [family    |-> IF looks_like_tablet /\ Contains(ua_lc, <<"i","p","a","d">>)
                           THEN Some(<<"i","P","a","d">>)
                           ELSE OrNone(ua.device_family),
             type      |-> IF looks_like_tablet THEN Some(<<"T","a","b","l","e","t">>) ELSE Some(dtype),
             is_mobile |-> IF looks_like_tablet THEN Some(FALSE) ELSE Some(ua.is_mobile),
             is_tablet |-> IF looks_like_tablet THEN Some(TRUE) ELSE Some(ua.is_tablet),
             is_pc     |-> Some(ua.is_pc),
             is_bot    |-> Some(ua.is_bot)]]

\* enrich_user_agent without the early return for an empty string
enrich_user_agent_noEmptyCheck(ua_str, lookup) ==
    IF lookup # None THEN LibraryInfo(ua_str, Get(lookup))
    ELSE LET ua_lc == ToLower(ua_str)
         IN  [browser |-> HeuristicBrowser(ua_lc),
              os      |-> HeuristicOS(ua_lc),
              device  |-> HeuristicDevice(ua_lc)]

\* main.py:129-256; lookup is the module-level ua_parse
enrich_user_agent(ua_str, lookup) ==
    IF ua_str = <<>> THEN UAInfo_empty
    ELSE IF lookup # None THEN LibraryInfo(ua_str, Get(lookup))
    ELSE LET ua_lc == ToLower(ua_str)
         IN  [browser |-> HeuristicBrowser(ua_lc),
              os      |-> HeuristicOS(ua_lc),
              device  |-> HeuristicDevice(ua_lc)]

----------------------------------------------------------------------------
(* Inputs of enrich_user_agent *)

MaxFrags == 2

\* user-agent fragments; a user-agent string is up to MaxFrags of them
\* joined by single spaces
UAFragments ==
    { <<"M","o","z","i","l","l","a","/","5",".","0">>,
      <<"(","i","P","a","d",";"," ","C","P","U"," ","O","S"," ","1","6","_","6"," ","l","i","k","e"," ","M","a","c"," ","O","S"," ","X",")">>,
      <<"(","i","P","h","o","n","e",";"," ","C","P","U"," ","i","P","h","o","n","e"," ","O","S"," ","1","7","_","2"," ","l","i","k","e"," ","M","a","c"," ","O","S"," ","X",")">>,
      <<"(","L","i","n","u","x",";"," ","A","n","d","r","o","i","d"," ","1","3",";"," ","S","M","-","T","8","7","0",")">>,
      <<"T","a","b","l","e","t">>,
      <<"M","o","b","i","l","e">>,
      <<"G","o","o","g","l","e","b","o","t","/","2",".","1">>,
      <<"(","W","i","n","d","o","w","s"," ","N","T"," ","1","0",".","0",";"," ","W","i","n","6","4",")">>,
      <<"C","h","r","o","m","e","/","1","1","9",".","0">>,
      <<"S","a","f","a","r","i","/","6","0","4",".","1">>,
      <<"E","d","g","/","1","1","9",".","0">>,
      <<"E","d","g","A","/","1","1","9",".","0">>,
      <<"O","P","R","/","1","0","5",".","0">>,
      <<"F","i","r","e","f","o","x","/","1","2","0",".","0">>,
      <<"c","u","r","l","/","8",".","4">> }

SeqsUpTo(S, n) == UNION {[1..k -> S] : k \in 0..n}

RECURSIVE Join(_)
Join(fs) ==
    IF Len(fs) = 0 THEN <<>>
    ELSE IF Len(fs) = 1 THEN fs[1]
    ELSE fs[1] \o <<" ">> \o Join(Tail(fs))

UAStrings == {Join(fs) : fs \in SeqsUpTo(UAFragments, MaxFrags)}

\* answers of the user-agents lookup: every combination of the four flags,
\* with all of its strings empty or all of them set
LibStrings ==
    { [browser_family |-> <<>>, browser_version_string |-> <<>>,
       os_family |-> <<>>, os_version_string |-> <<>>, device_family |-> <<>>],
      [browser_family |-> <<"M","o","b","i","l","e"," ","S","a","f","a","r","i">>, browser_version_string |-> <<"1","6",".","6">>,
       os_family |-> <<"i","O","S">>, os_version_string |-> <<"1","6",".","6">>,
       device_family |-> <<"O","t","h","e","r">>] }

LibResults ==
    { [browser_family |-> s.browser_family,
       browser_version_string |-> s.browser_version_string,
       os_family |-> s.os_family,
       os_version_string |-> s.os_version_string,
       device_family |-> s.device_family,
       is_mobile |-> m, is_tablet |-> t, is_pc |-> p, is_bot |-> b] :
      s \in LibStrings, m \in BOOLEAN, t \in BOOLEAN, p \in BOOLEAN, b \in BOOLEAN }

\* main.py:39-42: ua_parse is None when the import fails
Lookups == {None} \cup {Some(r) : r \in LibResults}

----------------------------------------------------------------------------
(* parse_time_local *)

DigitChars == <<"0","1","2","3","4","5","6","7","8","9">>

IsAsciiDigit(c) == c \in AsciiDigits

\* value of one ASCII digit
DigitValue(c) == (CHOOSE i \in 1..10 : DigitChars[i] = c) - 1

\* int() of a string of ASCII digits
RECURSIVE DigitsValue(_)
DigitsValue(s) ==
    IF Len(s) = 0 THEN 0
    ELSE 10 * DigitsValue(SubSeq(s, 1, Len(s) - 1)) + DigitValue(s[Len(s)])

\* "%0<width>d" % n
RECURSIVE Pad(_, _)
Pad(n, width) ==
    IF width = 0 THEN <<>>
    ELSE Pad(n \div 10, width - 1) \o <<DigitChars[(n % 10) + 1]>>

\* month abbreviations of the C locale, lower case (%b is case-insensitive)
MonthAbbrevs ==
    << <<"j","a","n">>, <<"f","e","b">>, <<"m","a","r">>, <<"a","p","r">>, <<"m","a","y">>, <<"j","u","n">>,
       <<"j","u","l">>, <<"a","u","g">>, <<"s","e","p">>, <<"o","c","t">>, <<"n","o","v">>, <<"d","e","c">> >>

_is_leap(year) == year % 4 = 0 /\ (year % 100 # 0 \/ year % 400 = 0)

_DAYS_IN_MONTH == <<31, 28, 31, 30, 31, 30, 31, 31, 30, 31, 30, 31>>

_days_in_month(year, month) ==
    IF month = 2 /\ _is_leap(year) THEN 29 ELSE _DAYS_IN_MONTH[month]

_days_before_year(year) ==
    LET y == year - 1 IN y * 365 + y \div 4 - y \div 100 + y \div 400

RECURSIVE _days_before_month(_, _)
_days_before_month(year, month) ==
    IF month = 1 THEN 0
    ELSE _days_before_month(year, month - 1) + _days_in_month(year, month - 1)

_ymd2ord(year, month, day) ==
    _days_before_year(year) + _days_before_month(year, month) + day

\* datetime.fromordinal: ordinal -> <<year, month, day>>
_ord2ymd(ordinal) ==
    LET n0   == ordinal - 1
        n400 == n0 \div 146097
        n1r  == n0 % 146097
        n100 == n1r \div 36524
        n2r  == n1r % 36524
        n4   == n2r \div 1461
        n3r  == n2r % 1461
        n1   == n3r \div 365
        n    == n3r % 365
        year == n400 * 400 + 1 + n100 * 100 + n4 * 4 + n1
    IN  IF n1 = 4 \/ n100 = 4 THEN <<year - 1, 12, 31>>
        ELSE LET month == CHOOSE m \in 1..12 :
                              /\ _days_before_month(year, m) <= n
                              /\ n < _days_before_month(year, m) + _days_in_month(year, m)
             IN  <<year, month, n - _days_before_month(year, month) + 1>>

\* datetime.strptime(s, NGINX_TIME_FMT) on a string of the fixed-width layout
\* DD/Mon/YYYY:HH:MM:SS +HHMM; Some(fields) or None for ValueError
strptime(s) ==
    LET digitsAt(i, n) == \A k \in i..(i + n - 1) : IsAsciiDigit(s[k])
        layout ==
            /\ Len(s) = 26
            /\ digitsAt(1, 2) /\ s[3] = "/" /\ s[7] = "/"
            /\ digitsAt(8, 4) /\ s[12] = ":"
            /\ digitsAt(13, 2) /\ s[15] = ":"
            /\ digitsAt(16, 2) /\ s[18] = ":"
            /\ digitsAt(19, 2) /\ s[21] = " "
            /\ s[22] \in {"+", "-"} /\ digitsAt(23, 4)
            /\ \E m \in 1..12 : MonthAbbrevs[m] = ToLower(SubSeq(s, 4, 6))
    IN  IF ~layout
        THEN None
        ELSE
        LET day    == DigitsValue(SubSeq(s, 1, 2))
            month  == CHOOSE m \in 1..12 : MonthAbbrevs[m] = ToLower(SubSeq(s, 4, 6))
            year   == DigitsValue(SubSeq(s, 8, 11))
            hour   == DigitsValue(SubSeq(s, 13, 14))
            minute == DigitsValue(SubSeq(s, 16, 17))
            second == DigitsValue(SubSeq(s, 19, 20))
            zh     == DigitsValue(SubSeq(s, 23, 24))
            zm     == DigitsValue(SubSeq(s, 25, 26))
            gmtoff == (IF s[22] = "-" THEN -1 ELSE 1) * (zh * 3600 + zm * 60)
        IN  IF /\ day >= 1 /\ day <= 31 /\ hour <= 23 /\ minute <= 59
               /\ second <= 59 /\ zm <= 59
               /\ year >= 1
               /\ day <= _days_in_month(year, month)
               /\ gmtoff > -86400 /\ gmtoff < 86400
            THEN Some([year |-> year, month |-> month, day |-> day,
                       hour |-> hour, minute |-> minute, second |-> second,
                       gmtoff |-> gmtoff])
            ELSE None

\* dt.astimezone(timezone.utc): Some(<<ordinal, second of day>>), or None for
\* OverflowError when the UTC date leaves 0001-01-01 .. 9999-12-31
astimezone_utc(dt) ==
    LET secs == dt.hour * 3600 + dt.minute * 60 + dt.second - dt.gmtoff
        carry == IF secs < 0 THEN -1 ELSE IF secs >= 86400 THEN 1 ELSE 0
        days == _ymd2ord(dt.year, dt.month, dt.day) + carry
    IN  IF 0 < days /\ days <= 3652059
        THEN Some(<<days, secs - carry * 86400>>)
        ELSE None

\* datetime.isoformat() of a UTC datetime without microseconds
isoformat(utc) ==
    LET ymd == _ord2ymd(utc[1])
        sec == utc[2]
    IN  Pad(ymd[1], 4) \o <<"-">> \o Pad(ymd[2], 2) \o <<"-">> \o Pad(ymd[3], 2)
        \o <<"T">> \o Pad(sec \div 3600, 2) \o <<":">>
        \o Pad((sec % 3600) \div 60, 2) \o <<":">> \o Pad(sec % 60, 2)
        \o <<"+","0","0",":","0","0">>

\* main.py:89-95
parse_time_local(s) ==
    LET dt == strptime(s)
    IN  IF dt = None THEN s
        ELSE LET utc == astimezone_utc(Get(dt))
             IN  IF utc = None THEN s ELSE isoformat(Get(utc))

----------------------------------------------------------------------------
(* parse_request *)

\* str.split(): the maximal runs of non-whitespace characters
RECURSIVE SplitFrom(_, _)
SplitFrom(s, i) ==
    LET a == Span(s, i, "space")
    IN  IF a > Len(s) THEN <<>>
        ELSE LET b == Span(s, a, "nonspace")
             IN  <<SubSeq(s, a, b - 1)>> \o SplitFrom(s, b)

Split(s) == SplitFrom(s, 1)

\* parse_request that stops at the first HTTP/ token instead of the last
parse_request_firstHttp(req) ==
    LET parts == Split(req)
        http  == {k \in 1..Len(parts) : StartsWith(ToUpper(parts[k]), <<"H","T","T","P","/">>)}
    IN  [method   |-> IF Len(parts) >= 1 THEN Some(parts[1]) ELSE None,
         path     |-> IF Len(parts) >= 2 THEN Some(parts[2]) ELSE None,
         protocol |-> IF http = {} THEN None
                      ELSE Some(parts[CHOOSE k \in http : \A j \in http : k <= j])]

\* main.py:98-112
parse_request(req) ==
    LET parts == Split(req)
        http  == {k \in 1..Len(parts) : StartsWith(ToUpper(parts[k]), <<"H","T","T","P","/">>)}
    IN  [method   |-> IF Len(parts) >= 1 THEN Some(parts[1]) ELSE None,
         path     |-> IF Len(parts) >= 2 THEN Some(parts[2]) ELSE None,
         protocol |-> IF http = {} THEN None
                      ELSE Some(parts[CHOOSE k \in http : \A j \in http : j <= k])]

----------------------------------------------------------------------------
(* COMBINED_REGEX *)

\* \d of a str pattern: the decimal digits of Unicode; U+0663 is
\* ARABIC-INDIC DIGIT THREE
IsDecimal(c) == c \in AsciiDigits \cup {"U+0663"}

\* str.isdigit() also holds of digits that int() rejects; U+00B2 is
\* SUPERSCRIPT TWO
IsDigitChar(c) == IsDecimal(c) \/ c = "U+00B2"

DecimalDigit(c) == IF c = "U+0663" THEN 3 ELSE DigitValue(c)

\* int() of a non-empty string of decimal digits
RECURSIVE IntOf(_)
IntOf(s) ==
    IF Len(s) = 0 THEN 0
    ELSE 10 * IntOf(SubSeq(s, 1, Len(s) - 1)) + DecimalDigit(s[Len(s)])

\* the pieces of the pattern; each takes the position reached so far (0 once
\* the match has failed) and gives the position after the piece
Plus(s, i, cls) ==
    IF i = 0 THEN 0
    ELSE LET j == Span(s, i, cls) IN IF j > i THEN j ELSE 0

Star(s, i, cls) == IF i = 0 THEN 0 ELSE Span(s, i, cls)

Lit(s, i, c) == IF i # 0 /\ i <= Len(s) /\ s[i] = c THEN i + 1 ELSE 0

Digits3(s, i) ==
    IF i # 0 /\ i + 2 <= Len(s) /\ \A k \in i..(i + 2) : IsDecimal(s[k])
    THEN i + 3 ELSE 0

\* COMBINED_REGEX.match(raw), main.py:49-59: the match is anchored at the
\* start of raw only.  Every repetition is followed by a piece that starts
\* outside its class, so the longest run is the only run that can match.
\* The result is None or Some(groupdict) with "end" the position after the
\* match.
COMBINED_REGEX_match(raw) ==
    LET a1 == Plus(raw, 1, "nonspace")                    \* remote_addr
        a2 == Plus(raw, a1, "space")
        b1 == Lit(raw, a2, "-")                         \* identd
        b2 == Plus(raw, b1, "space")
        c1 == Plus(raw, b2, "nonspace")                   \* remote_user
        c2 == Plus(raw, c1, "space")
        d0 == Lit(raw, c2, "[")
        d1 == Plus(raw, d0, "not_bracket")                 \* time_local
        d2 == Lit(raw, d1, "]")
        d3 == Plus(raw, d2, "space")
        e0 == Lit(raw, d3, "\"")
        e1 == Star(raw, e0, "not_quote")                   \* request
        e2 == Lit(raw, e1, "\"")
        e3 == Plus(raw, e2, "space")
        f1 == Digits3(raw, e3)                          \* status
        f2 == Plus(raw, f1, "space")
        g1 == Plus(raw, f2, "nonspace")                   \* body_bytes_sent
        g2 == Plus(raw, g1, "space")
        h0 == Lit(raw, g2, "\"")
        h1 == Star(raw, h0, "not_quote")                   \* http_referer
        h2 == Lit(raw, h1, "\"")
        h3 == Plus(raw, h2, "space")
        i0 == Lit(raw, h3, "\"")
        i1 == Star(raw, i0, "not_quote")                   \* http_user_agent
        i2 == Lit(raw, i1, "\"")
    IN  IF i2 = 0 THEN None
        ELSE Some([remote_addr     |-> SubSeq(raw, 1, a1 - 1),
                   remote_user     |-> SubSeq(raw, b2, c1 - 1),
                   time_local      |-> SubSeq(raw, d0, d1 - 1),
                   request         |-> SubSeq(raw, e0, e1 - 1),
                   status          |-> SubSeq(raw, e3, f1 - 1),
                   body_bytes_sent |-> SubSeq(raw, f2, g1 - 1),
                   http_referer    |-> SubSeq(raw, h0, h1 - 1),
                   http_user_agent |-> SubSeq(raw, i0, i1 - 1),
                   end             |-> i2])

----------------------------------------------------------------------------
(* parse_line and process_stream *)

\* str.rstrip("\r\n")
RECURSIVE rstrip_crlf(_)
rstrip_crlf(s) ==
    IF Len(s) > 0 /\ s[Len(s)] \in {"\r", "\n"}
    THEN rstrip_crlf(SubSeq(s, 1, Len(s) - 1))
    ELSE s

\* body_bytes that accepts a leading minus sign, as int() does
body_bytes_signed(bbs) ==
    IF Len(bbs) >= 2 /\ bbs[1] = "-" /\ \A k \in 2..Len(bbs) : IsDecimal(bbs[k])
    THEN 0 - IntOf(Tail(bbs))
    ELSE IF bbs # <<>> /\ \A k \in 1..Len(bbs) : IsDecimal(bbs[k])
    THEN IntOf(bbs)
    ELSE 0

\* main.py:289-293
body_bytes(bbs) ==
    IF bbs # <<>> /\ \A k \in 1..Len(bbs) : IsDigitChar(bbs[k])
    THEN IF \A k \in 1..Len(bbs) : IsDecimal(bbs[k])
         THEN IntOf(bbs)
         ELSE 0          \* int() raises ValueError, caught at main.py:292
    ELSE 0

\* main.py:267, the record of an empty line
EmptyRecord(n) == [line_number |-> n, parse_ok |-> FALSE, raw |-> <<>>]

\* MismatchRecord that also reports the first token as remote_addr
MismatchRecord_withAddr(n, raw) ==
    [line_number |-> n, raw |-> raw, parse_ok |-> FALSE,
     error |-> <<"L","i","n","e"," ","d","o","e","s"," ","n","o","t"," ","m","a","t","c","h"," ","N","g","i","n","x"," ","c","o","m","b","i","n","e","d"," ","f","o","r","m","a","t">>,
     remote_addr |-> SubSeq(raw, 1, Span(raw, 1, "nonspace") - 1)]

\* main.py:271-277, the record of a line the pattern does not match
MismatchRecord(n, raw) ==
    [line_number |-> n, raw |-> raw, parse_ok |-> FALSE,
     error |-> <<"L","i","n","e"," ","d","o","e","s"," ","n","o","t"," ","m","a","t","c","h"," ","N","g","i","n","x"," ","c","o","m","b","i","n","e","d"," ","f","o","r","m","a","t">>]

\* main.py:281-321, the record of a line the pattern matches; gd is
\* m.groupdict()
MatchedRecord(n, gd, req, ua_info) ==
    [line_number     |-> n,
     parse_ok        |-> TRUE,
     remote_addr     |-> gd.remote_addr,
     remote_user     |-> IF gd.remote_user = <<"-">> THEN None
                         ELSE Some(gd.remote_user),
     time_local      |-> gd.time_local,
     time_iso_utc    |-> parse_time_local(gd.time_local),
     request         |-> gd.request,
     method          |-> req.method,
     path            |-> req.path,
     protocol        |-> req.protocol,
     status          |-> IntOf(gd.status),
     body_bytes_sent |-> body_bytes(gd.body_bytes_sent),
     http_referer    |-> IF gd.http_referer \in {<<"-">>, <<>>} THEN None
                         ELSE Some(gd.http_referer),
     http_user_agent |-> OrNone(gd.http_user_agent),
     ua              |-> ua_info]

\* the value of a local that is bound once: the element of a singleton
Only(S) == CHOOSE x \in S : TRUE

\* main.py:270-321, after the match m
parse_matched(raw, m, n, lookup) ==
    IF m = None
    THEN <<MismatchRecord(n, raw), Some(<<"r","e","g","e","x","_","m","i","s","m","a","t","c","h">>)>>
    ELSE Only({ <<MatchedRecord(n, gd, req, ua_info), None>> :
                gd \in {Get(m)},
                req \in {parse_request(Get(m).request)},
                ua_info \in {enrich_user_agent(Get(m).http_user_agent, lookup)} })

\* main.py:266-321, after the strip
parse_raw(raw, n, lookup) ==
    IF raw = <<>>
    THEN <<EmptyRecord(n), Some(<<"e","m","p","t","y"," ","l","i","n","e">>)>>
    ELSE Only({parse_matched(raw, m, n, lookup) : m \in {COMBINED_REGEX_match(raw)}})

\* main.py:260-321: <<record, error reason>>
parse_line(ln, n, lookup) ==
    Only({parse_raw(raw, n, lookup) : raw \in {rstrip_crlf(ln)}})

\* the two components of the pair returned by parse_line
RecordOf(r) == Head(r)
ReasonOf(r) == Head(Tail(r))

\* process_stream_step that stops taking lines after the first failed one
process_stream_step_haltOnError(recs, errs, ln, i, lookup) ==
    LET r == parse_line(ln, i, lookup)
        rc == RecordOf(r)
        er == ReasonOf(r)
    IN  IF errs # <<>> THEN <<recs, errs>>
        ELSE << Append(recs, rc),
                IF er # None \/ rc.parse_ok = FALSE
                THEN Append(errs, <<i, IF er # None THEN Get(er)
                                       ELSE IF "error" \in DOMAIN rc THEN rc.error
                                       ELSE <<"u","n","k","n","o","w","n"," ","e","r","r","o","r">>>>)
                ELSE errs >>

\* main.py:328-332, one iteration of the loop of process_stream:
\* <<records, errors>> after line ln, the i-th of the stream
process_stream_step(recs, errs, ln, i, lookup) ==
    LET r == parse_line(ln, i, lookup)
        rc == RecordOf(r)
        er == ReasonOf(r)
    IN  << Append(recs, rc),
           IF er # None \/ rc.parse_ok = FALSE
           THEN Append(errs, <<i, IF er # None THEN Get(er)
                                  ELSE IF "error" \in DOMAIN rc THEN rc.error
                                  ELSE <<"u","n","k","n","o","w","n"," ","e","r","r","o","r">>>>)
           ELSE errs >>

----------------------------------------------------------------------------
(* Inputs of parse_time_local, parse_line and process_stream *)

MonthNames ==
    << <<"J","a","n">>, <<"F","e","b">>, <<"M","a","r">>, <<"A","p","r">>, <<"M","a","y">>, <<"J","u","n">>,
       <<"J","u","l">>, <<"A","u","g">>, <<"S","e","p">>, <<"O","c","t">>, <<"N","o","v">>, <<"D","e","c">> >>

\* the time_local string of the given fields
TimeLocal(f) ==
    Pad(f.day, 2) \o <<"/">> \o MonthNames[f.month] \o <<"/">> \o Pad(f.year, 4)
    \o <<":">> \o Pad(f.hour, 2) \o <<":">> \o Pad(f.minute, 2) \o <<":">>
    \o Pad(f.second, 2) \o <<" ">> \o f.zone

TimeFields ==
    [day : {1, 29, 31}, month : {1, 2, 9, 12}, year : {1, 2024, 2025, 9999},
     hour : {0, 9, 23}, minute : {12}, second : {0, 59},
     zone : {<<"+","0","0","0","0">>, <<"+","0","8","0","0">>, <<"-","0","8","0","0">>, <<"+","0","5","3","0">>, <<"-","2","3","5","9">>, <<"+","2","4","0","0">>}]

TimeStrings ==
    {TimeLocal(f) : f \in TimeFields}
    \cup {<<>>, <<"-">>, <<"1","2","/","S","e","p","/","2","0","2","5">>, <<"1","2","/","S","e","p","/","2","0","2","5",":","0","9",":","1","2",":","0","3">>,
          <<"1","2","/","S","e","p","/","2","0","2","5",":","0","9",":","1","2",":","0","3"," ","0","8","0","0">>, <<"1","2","/","X","y","z","/","2","0","2","5",":","0","9",":","1","2",":","0","3"," ","+","0","8","0","0">>,
          <<"1","2","/","S","e","p","/","2","0","2","5",":","2","4",":","1","2",":","0","3"," ","+","0","8","0","0">>, <<"1","2","/","S","e","p","/","2","0","2","5",":","0","9",":","1","2",":","6","0"," ","+","0","8","0","0">>,
          <<"0","0","/","S","e","p","/","2","0","2","5",":","0","9",":","1","2",":","0","3"," ","+","0","8","0","0">>, <<"1","2","/","S","e","p","/","0","0","0","0",":","0","9",":","1","2",":","0","3"," ","+","0","8","0","0">>,
          <<"1","2","/","s","e","p","/","2","0","2","5",":","0","9",":","1","2",":","0","3"," ","+","0","8","0","0">>}

\* a line is the concatenation of these pieces, sep between the fields
BaseLine ==
    [pre    |-> <<>>,
     addr   |-> <<"2","0","3",".","0",".","1","1","3",".","1","0">>,
     identd |-> <<"-">>,
     user   |-> <<"-">>,
     time   |-> <<"[","1","2","/","S","e","p","/","2","0","2","5",":","0","9",":","1","2",":","0","3"," ","+","0","8","0","0","]">>,
     req    |-> <<"\"","G","E","T"," ","/"," ","H","T","T","P","/","1",".","1","\"">>,
     status |-> <<"2","0","0">>,
     bytes  |-> <<"1","4","5","0">>,
     ref    |-> <<"\"","-","\"">>,
     ua     |-> <<"\"","M","o","z","i","l","l","a","/","5",".","0"," ","(","W","i","n","d","o","w","s"," ","N","T"," ","1","0",".","0",";"," ","W","i","n","6","4",")"," ","C","h","r","o","m","e","/","1","1","9",".","0"," ","S","a","f","a","r","i","/","6","0","4",".","1","\"">>,
     tail   |-> <<>>,
     eol    |-> <<"\n">>,
     sep    |-> <<" ">>]

LineOptions ==
    [pre    |-> {<<" ">>, <<"x"," ">>, <<"x">>},
     addr   |-> {<<"1","9","8",".","5","1",".","1","0","0",".","2","3">>, <<":",":","1">>},
     identd |-> {<<"x">>, <<"-","-">>},
     user   |-> {<<"b","o","b">>},
     time   |-> {<<"1","2","/","S","e","p","/","2","0","2","5",":","0","9",":","1","2",":","0","3"," ","+","0","8","0","0">>, <<"[","]">>, <<"[","x","]">>,
                 <<"[","0","1","/","J","a","n","/","0","0","0","1",":","0","0",":","0","0",":","0","0"," ","+","0","8","0","0","]">>},
     req    |-> {<<"G","E","T"," ","/"," ","H","T","T","P","/","1",".","1">>, <<"\"","\"">>, <<"\"","G","E","T","\"">>,
                 <<"\"","G","E","T"," ","/","r","e","p","o","r","t","s"," ","Q","1"," ","H","T","T","P","/","1",".","1","\"">>, <<"\"","G","E","T"," ","/","a"," ","h","t","t","p","/","2",".","0"," ","H","T","T","P","/","1",".","1"," ","x","\"">>},
     status |-> {<<"4","0","4">>, <<"2","0">>, <<"2","0","0","0">>, <<"a","b","c">>, <<"U+0663", "0", "2">>},
     bytes  |-> {<<"0">>, <<"-">>, <<"-","5">>, <<"1","2","a">>, <<"0","0","7">>, <<"1",".","5">>, <<"+","5">>,
                 <<"U+00B2">>, <<"1", "U+0663">>, <<"1", "U+00B2">>, <<>>},
     ref    |-> {<<"\"","\"">>, <<"\"","h","t","t","p","s",":","/","/","e","x","a","m","p","l","e",".","c","o","m","/","p","a","g","e","\"">>, <<"-">>},
     ua     |-> {<<"\"","\"">>, <<"\"","c","u","r","l","/","8",".","4","\"">>, <<"U","A">>,
                 <<"\"","M","o","z","i","l","l","a","/","5",".","0"," ","(","i","P","a","d",";"," ","C","P","U"," ","O","S"," ","1","6","_","6"," ","l","i","k","e"," ","M","a","c"," ","O","S"," ","X",")"," ","M","o","b","i","l","e","/","1","5","E","1","4","8"," ","S","a","f","a","r","i","/","6","0","4",".","1","\"">>,
                 <<"\"","M","o","z","i","l","l","a","/","5",".","0"," ","(","L","i","n","u","x",";"," ","A","n","d","r","o","i","d"," ","1","3",";"," ","S","M","-","T","8","7","0",")"," ","C","h","r","o","m","e","/","1","1","9",".","0"," ","M","o","b","i","l","e"," ","S","a","f","a","r","i","/","6","0","4",".","1","\"">>,
                 <<"\"","M","o","z","i","l","l","a","/","5",".","0"," ","(","c","o","m","p","a","t","i","b","l","e",";"," ","G","o","o","g","l","e","b","o","t","/","2",".","1",";"," ","+","h","t","t","p",":","/","/","w","w","w",".","g","o","o","g","l","e",".","c","o","m","/","b","o","t",".","h","t","m","l",")","\"">>},
     tail   |-> {<<" ","e","x","t","r","a">>, <<"x">>, <<" ","\"","m","o","r","e","\"">>},
     eol    |-> {<<>>, <<"\r", "\n">>, <<"\n", "\n">>},
     sep    |-> {<<"\t">>, <<" ", " ">>}]

RenderLine(c) ==
    c.pre \o c.addr \o c.sep \o c.identd \o c.sep \o c.user \o c.sep \o c.time
    \o c.sep \o c.req \o c.sep \o c.status \o c.sep \o c.bytes \o c.sep
    \o c.ref \o c.sep \o c.ua \o c.tail \o c.eol

\* the base line, the base line with one piece replaced, and the lines of
\* the second set, which have no fields at all
Lines ==
    {RenderLine(BaseLine)}
    \cup UNION {{RenderLine([BaseLine EXCEPT ![f] = v]) : v \in LineOptions[f]} :
                f \in DOMAIN LineOptions}
    \cup {<<>>, <<"\n">>, <<"\r", "\n">>, <<" ">>, <<" ", "\n">>,
          <<"G","E","T"," ","/"," ","H","T","T","P","/","1",".","1"," ","2","0","0"," ","1","4","5","0"," ","\"","-","\""," ","\"","U","A","\"">>}

MaxLineNo == 2

MaxLines == 3

\* the lines a stream is made of; their remote_addr differ
StreamLines ==
    { RenderLine(BaseLine),
      RenderLine([BaseLine EXCEPT !.addr = <<"1","9","8",".","5","1",".","1","0","0",".","2","3">>, !.bytes = <<"-">>,
                                  !.ua = <<"\"","M","o","z","i","l","l","a","/","5",".","0"," ","(","i","P","a","d",";"," ","C","P","U"," ","O","S"," ","1","6","_","6"," ","l","i","k","e"," ","M","a","c"," ","O","S"," ","X",")","\"">>]),
      RenderLine([BaseLine EXCEPT !.addr = <<"1","9","2",".","0",".","2",".","7","7">>, !.req = <<"G","E","T"," ","/"," ","H","T","T","P","/","1",".","1">>]),
      RenderLine([BaseLine EXCEPT !.addr = <<"6","6",".","2","4","9",".","6","6",".","1">>, !.tail = <<" ","e","x","t","r","a">>,
                                  !.ua = <<"\"","\"">>]),
      <<"\n">>,
      <<>> }

----------------------------------------------------------------------------
(* Inputs of parse_request *)

MaxTokens == 5

\* tokens of a request; xHTTP/1.1 contains HTTP/ without starting with it
RequestTokens ==
    { <<"G","E","T">>, <<"/","r","e","p","o","r","t","s">>, <<"Q","1">>, <<"H","T","T","P","/","1",".","1">>, <<"h","t","t","p","/","2",".","0">>, <<"x","H","T","T","P","/","1",".","1">> }

\* what stands before, between and after the tokens
RequestLayouts ==
    { [lead |-> <<>>,    sep |-> <<" ">>,      trail |-> <<>>],
      [lead |-> <<" ">>, sep |-> <<" ", " ">>, trail |-> <<" ">>],
      [lead |-> <<>>,    sep |-> <<"\t">>,     trail |-> <<>>] }

RECURSIVE JoinWith(_, _)
JoinWith(fs, sep) ==
    IF Len(fs) = 0 THEN <<>>
    ELSE IF Len(fs) = 1 THEN fs[1]
    ELSE fs[1] \o sep \o JoinWith(Tail(fs), sep)

Requests ==
    { l.lead \o JoinWith(ts, l.sep) \o l.trail :
      ts \in SeqsUpTo(RequestTokens, MaxTokens), l \in RequestLayouts }

----------------------------------------------------------------------------
(* The state machines *)

UAIdle == ua_string = <<>> /\ info = UAInfo_empty /\ ua_called = FALSE
StreamIdle == lines = <<>> /\ records = <<>> /\ errors = <<>> /\ returned = FALSE
LineIdle ==
    /\ line = <<>> /\ line_number = 1
    /\ rec = EmptyRecord(1) /\ err = None /\ pl_called = FALSE
TimeIdle == time_in = <<>> /\ time_out = <<>> /\ time_called = FALSE
RequestIdle ==
    /\ request_in = <<>> /\ request_out = parse_request(<<>>)
    /\ request_called = FALSE

\* process_stream -----------------------------------------------------------

Init ==
    /\ ua_parse \in Lookups
    /\ StreamIdle /\ UAIdle /\ LineIdle /\ TimeIdle /\ RequestIdle

\* main.py:328-332: the loop takes the next line of the stream
ProcessLine(ln) ==
    /\ ~returned
    /\ Len(lines) < MaxLines
    /\ \E r \in {process_stream_step(records, errors, ln, Len(lines) + 1, ua_parse)} :
           records' = Head(r) /\ errors' = Head(Tail(r))
    /\ lines' = Append(lines, ln)
    /\ UNCHANGED <<ua_parse, returned, ua_string, info, ua_called, line,
                   line_number, rec, err, pl_called, time_in, time_out,
                   time_called, request_in, request_out, request_called>>

\* main.py:333: the stream is exhausted
Return ==
    /\ ~returned
    /\ returned' = TRUE
    /\ UNCHANGED <<ua_parse, lines, records, errors, ua_string, info,
                   ua_called, line, line_number, rec, err, pl_called,
                   time_in, time_out, time_called, request_in, request_out,
                   request_called>>

Next == (\E ln \in StreamLines : ProcessLine(ln)) \/ Return

Spec == Init /\ [][Next]_vars

\* parse_line ---------------------------------------------------------------

InitLine ==
    /\ ua_parse \in Lookups
    /\ line \in Lines /\ line_number \in 1..MaxLineNo
    /\ rec = EmptyRecord(1) /\ err = None /\ pl_called = FALSE
    /\ StreamIdle /\ UAIdle /\ TimeIdle /\ RequestIdle

ParseLine ==
    /\ ~pl_called
    /\ \E r \in {parse_line(line, line_number, ua_parse)} :
           rec' = RecordOf(r) /\ err' = ReasonOf(r)
    /\ pl_called' = TRUE
    /\ UNCHANGED <<ua_parse, line, line_number, lines, records, errors,
                   returned, ua_string, info, ua_called, time_in, time_out,
                   time_called, request_in, request_out, request_called>>

NextLine == ParseLine

SpecLine == InitLine /\ [][NextLine]_vars

\* enrich_user_agent --------------------------------------------------------

InitUA ==
    /\ ua_parse \in Lookups
    /\ ua_string \in UAStrings /\ info = UAInfo_empty /\ ua_called = FALSE
    /\ StreamIdle /\ LineIdle /\ TimeIdle /\ RequestIdle

Enrich ==
    /\ ~ua_called
    /\ info' = enrich_user_agent(ua_string, ua_parse)
    /\ ua_called' = TRUE
    /\ UNCHANGED <<ua_parse, ua_string, lines, records, errors, returned,
                   line, line_number, rec, err, pl_called, time_in, time_out,
                   time_called, request_in, request_out, request_called>>

NextUA == Enrich

SpecUA == InitUA /\ [][NextUA]_vars

\* parse_time_local ---------------------------------------------------------

InitTime ==
    /\ ua_parse = None
    /\ time_in \in TimeStrings /\ time_out = <<>> /\ time_called = FALSE
    /\ StreamIdle /\ UAIdle /\ LineIdle /\ RequestIdle

ParseTime ==
    /\ ~time_called
    /\ time_out' = parse_time_local(time_in)
    /\ time_called' = TRUE
    /\ UNCHANGED <<ua_parse, time_in, lines, records, errors, returned, line,
                   line_number, rec, err, pl_called, ua_string, info,
                   ua_called, request_in, request_out, request_called>>

NextTime == ParseTime

SpecTime == InitTime /\ [][NextTime]_vars


\* parse_request -----------------------------------------------------------

InitRequest ==
    /\ ua_parse = None
    /\ request_in \in Requests /\ request_out = parse_request(<<>>)
    /\ request_called = FALSE
    /\ StreamIdle /\ UAIdle /\ LineIdle /\ TimeIdle

ParseRequest ==
    /\ ~request_called
    /\ request_out' = parse_request(request_in)
    /\ request_called' = TRUE
    /\ UNCHANGED <<ua_parse, request_in, lines, records, errors, returned,
                   line, line_number, rec, err, pl_called, ua_string, info,
                   ua_called, time_in, time_out, time_called>>

NextRequest == ParseRequest

SpecRequest == InitRequest /\ [][NextRequest]_vars
----------------------------------------------------------------------------
(* Properties *)

Known(dev) ==
    /\ dev.is_mobile # None /\ dev.is_tablet # None
    /\ dev.is_pc # None /\ dev.is_bot # None

TrueFlags(dev) ==
    {f \in {"is_mobile", "is_tablet", "is_pc", "is_bot"} : dev[f] = Some(TRUE)}

TypeOfFlag(f) ==
    IF f = "is_mobile" THEN <<"M","o","b","i","l","e">>
    ELSE IF f = "is_tablet" THEN <<"T","a","b","l","e","t">>
    ELSE IF f = "is_pc" THEN <<"P","C">>
    ELSE <<"B","o","t">>

Heuristic == ua_parse = None

\* C1: whenever enrich_user_agent returns a classification whose four is_*
\* flags are all known, at most one of them is true and the device type is
\* the type of the true flag, or Other when none is true (both strategies,
\* any four booleans from the lookup).
C1_MutualExclusivity ==
    (ua_called /\ Known(info.device)) =>
        /\ Cardinality(TrueFlags(info.device)) <= 1
        /\ \A f \in TrueFlags(info.device) : info.device.type = Some(TypeOfFlag(f))
        /\ TrueFlags(info.device) = {} => info.device.type = Some(<<"O","t","h","e","r">>)

LooksLikeTablet(ua) ==
    \/ Contains(ToLower(ua), <<"t","a","b","l","e","t">>)
    \/ Contains(ToLower(ua), <<"i","p","a","d">>)
    \/ Contains(ToLower(ua), <<"s","m","-","t">>)

\* C2: under both strategies, a user agent that contains "tablet", "ipad"
\* or "sm-t" (case-insensitively) is classified Tablet with is_tablet true
\* and is_mobile false, also when "Mobile" is in the string.
C2_TabletOverride ==
    (ua_called /\ LooksLikeTablet(ua_string)) =>
        /\ info.device.type = Some(<<"T","a","b","l","e","t">>)
        /\ info.device.is_tablet = Some(TRUE)
        /\ info.device.is_mobile = Some(FALSE)

\* the whole of raw is one line of the grammar
\*   <remote_addr> <-> <remote_user> [<time_local>] "<request>" <status>
\*   <body_bytes_sent> "<referer>" "<user_agent>"
MatchesGrammar(raw) ==
    LET m == COMBINED_REGEX_match(raw)
    IN  m # None /\ Get(m).end = Len(raw) + 1

\* C3: parse_line succeeds, with no failure reason, on every line that
\* matches the grammar, and fails with regex_mismatch on every non-empty
\* line that does not, content after the user-agent field included.
C3_GrammarCoverage ==
    (pl_called /\ rstrip_crlf(line) # <<>>) =>
        IF MatchesGrammar(rstrip_crlf(line))
        THEN rec.parse_ok /\ err = None
        ELSE ~rec.parse_ok /\ err = Some(<<"r","e","g","e","x","_","m","i","s","m","a","t","c","h">>)

FailedLines == {k \in 1..Len(records) : ~records[k].parse_ok}

\* the record r was made from the line ln
FromLine(r, ln) ==
    IF r.parse_ok THEN r.remote_addr = Split(ln)[1]
    ELSE r.raw = rstrip_crlf(ln)

\* C4: process_stream keeps one record per line consumed, in input order,
\* the k-th with line_number k; errors holds exactly one pair per failed
\* record, in increasing line order, and none for a line that parsed; a
\* failed line does not end the run.
C4_OneRecordPerLine ==
    /\ Len(records) = Len(lines)
    /\ \A k \in 1..Len(records) :
          records[k].line_number = k /\ FromLine(records[k], lines[k])
    /\ Len(errors) = Cardinality(FailedLines)
    /\ \A j \in 1..Len(errors) :
          /\ errors[j][1] \in FailedLines
          /\ errors[j][2] \in {<<"e","m","p","t","y"," ","l","i","n","e">>, <<"r","e","g","e","x","_","m","i","s","m","a","t","c","h">>}
          /\ j < Len(errors) => errors[j][1] < errors[j + 1][1]

\* a run of three lines returned with a parsed line between two failed ones
C4_Witness ==
    /\ returned /\ Len(lines) = 3
    /\ ~records[1].parse_ok /\ records[2].parse_ok /\ ~records[3].parse_ok
    /\ Len(errors) = 2 /\ errors[2][1] = 3

\* the fields of a fixed-width DD/Mon/YYYY:HH:MM:SS +HHMM string
StampDay(s) == DigitsValue(SubSeq(s, 1, 2))
StampMonth(s) == CHOOSE m \in 1..12 : MonthNames[m] = SubSeq(s, 4, 6)
StampYear(s) == DigitsValue(SubSeq(s, 8, 11))
StampSecondOfDay(s) ==
    DigitsValue(SubSeq(s, 13, 14)) * 3600 + DigitsValue(SubSeq(s, 16, 17)) * 60
    + DigitsValue(SubSeq(s, 19, 20))
StampOffset(s) ==
    (IF s[22] = "-" THEN -1 ELSE 1)
    * (DigitsValue(SubSeq(s, 23, 24)) * 3600 + DigitsValue(SubSeq(s, 25, 26)) * 60)

\* length of the month in the proleptic Gregorian calendar
MonthLength(y, m) ==
    IF m \in {4, 6, 9, 11} THEN 30
    ELSE IF m # 2 THEN 31
    ELSE IF (y % 4 = 0 /\ y % 100 # 0) \/ y % 400 = 0 THEN 29 ELSE 28

\* a valid timestamp: a real calendar date in the years 0001..9999, a time
\* of day, and an offset of fewer than 24 hours
ValidStamp(s) ==
    /\ Len(s) = 26
    /\ \A k \in {1, 2, 8, 9, 10, 11, 13, 14, 16, 17, 19, 20, 23, 24, 25, 26} :
          IsAsciiDigit(s[k])
    /\ s[3] = "/" /\ s[7] = "/" /\ s[12] = ":" /\ s[15] = ":" /\ s[18] = ":"
    /\ s[21] = " " /\ s[22] \in {"+", "-"}
    /\ \E m \in 1..12 : MonthNames[m] = SubSeq(s, 4, 6)
    /\ StampYear(s) >= 1
    /\ StampDay(s) >= 1 /\ StampDay(s) <= MonthLength(StampYear(s), StampMonth(s))
    /\ DigitsValue(SubSeq(s, 13, 14)) <= 23
    /\ DigitsValue(SubSeq(s, 16, 17)) <= 59
    /\ DigitsValue(SubSeq(s, 19, 20)) <= 59
    /\ DigitsValue(SubSeq(s, 23, 24)) <= 23
    /\ DigitsValue(SubSeq(s, 25, 26)) <= 59

\* days from 0000-03-01 to the given date (the era/day-of-era count)
CivilDays(y, m, d) ==
    LET yy  == IF m <= 2 THEN y - 1 ELSE y
        mp  == IF m > 2 THEN m - 3 ELSE m + 9
        doy == (153 * mp + 2) \div 5 + d - 1
    IN  (yy \div 400) * 146097 + (yy % 400) * 365 + (yy % 400) \div 4
        - (yy % 400) \div 100 + doy

\* the UTC instant <<day, second of day>> of a valid timestamp
StampInstant(s) ==
    LET secs == StampSecondOfDay(s) - StampOffset(s)
        days == CivilDays(StampYear(s), StampMonth(s), StampDay(s))
    IN  IF secs < 0 THEN <<days - 1, secs + 86400>>
        ELSE IF secs >= 86400 THEN <<days + 1, secs - 86400>>
        ELSE <<days, secs>>

\* YYYY-MM-DDTHH:MM:SS+00:00
IsIsoUtc(s) ==
    /\ Len(s) = 25
    /\ \A k \in {1, 2, 3, 4, 6, 7, 9, 10, 12, 13, 15, 16, 18, 19} : IsAsciiDigit(s[k])
    /\ s[5] = "-" /\ s[8] = "-" /\ s[11] = "T" /\ s[14] = ":" /\ s[17] = ":"
    /\ SubSeq(s, 20, 25) = <<"+","0","0",":","0","0">>
    /\ DigitsValue(SubSeq(s, 6, 7)) \in 1..12
    /\ DigitsValue(SubSeq(s, 9, 10)) \in
          1..MonthLength(DigitsValue(SubSeq(s, 1, 4)), DigitsValue(SubSeq(s, 6, 7)))
    /\ DigitsValue(SubSeq(s, 12, 13)) <= 23
    /\ DigitsValue(SubSeq(s, 15, 16)) <= 59
    /\ DigitsValue(SubSeq(s, 18, 19)) <= 59

IsoInstant(s) ==
    << CivilDays(DigitsValue(SubSeq(s, 1, 4)), DigitsValue(SubSeq(s, 6, 7)),
                 DigitsValue(SubSeq(s, 9, 10))),
       DigitsValue(SubSeq(s, 12, 13)) * 3600 + DigitsValue(SubSeq(s, 15, 16)) * 60
       + DigitsValue(SubSeq(s, 18, 19)) >>

\* C5: on every valid timestamp, the years 0001 and 9999 and every offset
\* included, parse_time_local does not return its input but an ISO-8601 UTC
\* string of the same instant (the local time minus the offset).
C5_RoundTrip ==
    (time_called /\ ValidStamp(time_in)) =>
        /\ time_out # time_in
        /\ IsIsoUtc(time_out)
        /\ IsoInstant(time_out) = StampInstant(time_in)

\* the substrings the heuristic fallback looks for
Markers ==
    { <<"e","d","g","/">>, <<" ","e","d","g","e","/">>, <<" ","e","d","g"," ">>, <<"o","p","r","/">>, <<" ","o","p","e","r","a">>, <<"c","h","r","o","m","e","/">>,
      <<"f","i","r","e","f","o","x","/">>, <<"s","a","f","a","r","i","/">>, <<"w","i","n","d","o","w","s">>, <<"m","a","c"," ","o","s"," ","x">>, <<"m","a","c","i","n","t","o","s","h">>,
      <<"a","n","d","r","o","i","d">>, <<"i","p","h","o","n","e">>, <<"i","p","a","d">>, <<"c","p","u"," ","o","s">>, <<"l","i","n","u","x">>, <<"b","o","t">>,
      <<"s","p","i","d","e","r">>, <<"c","r","a","w","l","e","r">>, <<"t","a","b","l","e","t">>, <<"m","o","b","i","l","e">> }

Unrecognized(ua) == \A n \in Markers : ~Contains(ToLower(ua), n)

IsUAInfo(i) ==
    /\ DOMAIN i = {"browser", "os", "device"}
    /\ DOMAIN i.browser = {"family", "version"}
    /\ DOMAIN i.os = {"family", "version"}
    /\ DOMAIN i.device =
          {"family", "type", "is_mobile", "is_tablet", "is_pc", "is_bot"}

C7_IpadIsTabletIos ==
    (/\ pl_called /\ rec.parse_ok
     /\ rec.http_user_agent # None
     /\ Contains(Get(rec.http_user_agent), <<"i","P","a","d">>)
     /\ Contains(Get(rec.http_user_agent), <<"C","P","U"," ","O","S"," ">>)
     /\ Contains(Get(rec.http_user_agent), <<" ","l","i","k","e"," ","M","a","c"," ","O","S"," ","X">>)) =>
        /\ rec.ua.device.type = Some(<<"T","a","b","l","e","t">>)
        /\ rec.ua.os.family \in {Some(<<"i","O","S">>), Some(<<"i","P","a","d","O","S">>), None}

\* C8: a record that parse_line returns with parse_ok false, for an empty
\* line or for a mismatch, has no field besides line_number, parse_ok, raw
\* and error.
C8_FailedRecordFields ==
    (pl_called /\ ~rec.parse_ok) =>
        /\ DOMAIN rec \subseteq {"line_number", "parse_ok", "raw", "error"}
        /\ err \in {Some(<<"e","m","p","t","y"," ","l","i","n","e">>), Some(<<"r","e","g","e","x","_","m","i","s","m","a","t","c","h">>)}

\* parse_line has rejected a non-empty line
C8_Witness ==
    /\ pl_called /\ ~rec.parse_ok
    /\ rec.raw # <<>> /\ "error" \in DOMAIN rec
    /\ err = Some(<<"r","e","g","e","x","_","m","i","s","m","a","t","c","h">>)

RECURSIVE Pow10(_)
Pow10(n) == IF n = 0 THEN 1 ELSE 10 * Pow10(n - 1)

\* the number a string of decimal digits denotes
DecimalValue(tok) ==
    LET term[k \in 0..Len(tok)] ==
            IF k = 0 THEN 0
            ELSE term[k - 1] + DecimalDigit(tok[k]) * Pow10(Len(tok) - k)
    IN  term[Len(tok)]

\* the body_bytes_sent token of the line: the sixth field of the pattern
BytesToken == Get(COMBINED_REGEX_match(rstrip_crlf(line))).body_bytes_sent

HasAny(ua, ns) == \E n \in ns : Contains(ToLower(ua), n)

\* the first type in the order Bot > Tablet > Mobile > PC > Other
FirstDeviceType(ua) ==
    IF HasAny(ua, {<<"b","o","t">>, <<"s","p","i","d","e","r">>, <<"c","r","a","w","l","e","r">>}) THEN "is_bot"
    ELSE IF HasAny(ua, {<<"i","p","a","d">>, <<"t","a","b","l","e","t">>}) THEN "is_tablet"
    ELSE IF HasAny(ua, {<<"m","o","b","i","l","e">>, <<"i","p","h","o","n","e">>}) THEN "is_mobile"
    ELSE IF HasAny(ua, {<<"w","i","n","d","o","w","s">>, <<"m","a","c"," ","o","s"," ","x">>, <<"l","i","n","u","x">>}) THEN "is_pc"
    ELSE "other"

\* C10: in the heuristic fallback the device type of a non-empty user agent
\* is the first match in the order Bot, Tablet, Mobile, PC, Other; the four
\* flags are booleans, and exactly the flag of that type is true (none for
\* Other).
C10_DeviceOrder ==
    (ua_called /\ Heuristic /\ ua_string # <<>>) =>
        /\ Known(info.device)
        /\ info.device.type =
              IF FirstDeviceType(ua_string) = "other" THEN Some(<<"O","t","h","e","r">>)
              ELSE Some(TypeOfFlag(FirstDeviceType(ua_string)))
        /\ TrueFlags(info.device) = {FirstDeviceType(ua_string)} \ {"other"}

\* the fallback has classified a tablet that also says Mobile
C10_Witness ==
    /\ ua_called /\ Heuristic
    /\ HasAny(ua_string, {<<"i","p","a","d">>, <<"t","a","b","l","e","t">>})
    /\ HasAny(ua_string, {<<"m","o","b","i","l","e">>})
    /\ ~HasAny(ua_string, {<<"b","o","t">>})
    /\ info.device.type = Some(<<"T","a","b","l","e","t">>)


----------------------------------------------------------------------------
(* C11 *)

\* the positions where a whitespace-delimited token of s starts
TokenStarts(s) ==
    {a \in 1..Len(s) : ~IsSpace(s[a]) /\ (a = 1 \/ IsSpace(s[a - 1]))}

\* the token of s that starts at a
TokenAt(s, a) ==
    SubSeq(s, a, CHOOSE b \in a..Len(s) :
                     /\ \A k \in a..b : ~IsSpace(s[k])
                     /\ (b = Len(s) \/ IsSpace(s[b + 1])))

Least(S) == CHOOSE a \in S : \A b \in S : a <= b
Greatest(S) == CHOOSE a \in S : \A b \in S : b <= a

\* the starts of the tokens that begin with HTTP/ in any letter case
HttpStarts(s) ==
    {a \in TokenStarts(s) :
        /\ Len(TokenAt(s, a)) >= 5
        /\ ToLower(SubSeq(TokenAt(s, a), 1, 5)) = <<"h","t","t","p","/">>}

\* C11: parse_request returns the first whitespace-delimited token as the
\* method, the second as the path (absent with fewer than two tokens) and
\* the last token that starts with HTTP/ in any letter case as the protocol
\* (absent when there is none), whatever stands between them; all three are
\* absent for the empty request.
C11_ParseRequest ==
    request_called =>
        LET starts == TokenStarts(request_in)
            http   == HttpStarts(request_in)
        IN  /\ request_out.method =
                  IF starts = {} THEN None
                  ELSE Some(TokenAt(request_in, Least(starts)))
            /\ request_out.path =
                  IF Cardinality(starts) < 2 THEN None
                  ELSE Some(TokenAt(request_in, Least(starts \ {Least(starts)})))
            /\ request_out.protocol =
                  IF http = {} THEN None
                  ELSE Some(TokenAt(request_in, Greatest(http)))
            /\ request_in = <<>> =>
                  request_out = [method |-> None, path |-> None, protocol |-> None]

\* a request with two middle tokens, one of them an earlier HTTP/ token, has
\* been parsed
C11_Witness ==
    /\ request_called
    /\ request_in = <<"G","E","T"," ","/","r","e","p","o","r","t","s"," ","h","t","t","p","/","2",".","0"," ","Q","1"," ","H","T","T","P","/","1",".","1">>
    /\ request_out = [method |-> Some(<<"G","E","T">>), path |-> Some(<<"/","r","e","p","o","r","t","s">>),
                      protocol |-> Some(<<"H","T","T","P","/","1",".","1">>)]

----------------------------------------------------------------------------
(* C12 *)

EdgeMarkers == {<<"e","d","g","/">>, <<" ","e","d","g","e","/">>, <<" ","e","d","g"," ">>}
OperaMarkers == {<<"o","p","r","/">>, <<" ","o","p","e","r","a">>}

\* the first family in the order Edge, Opera, Chrome, Firefox, Safari; once
\* the Edge and Opera markers are absent Chrome needs only its marker, and
\* once the Chrome marker is absent Safari needs only its own
FirstBrowserFamily(ua) ==
    IF HasAny(ua, EdgeMarkers) THEN Some(<<"E","d","g","e">>)
    ELSE IF HasAny(ua, OperaMarkers) THEN Some(<<"O","p","e","r","a">>)
    ELSE IF HasAny(ua, {<<"c","h","r","o","m","e","/">>}) THEN Some(<<"C","h","r","o","m","e">>)
    ELSE IF HasAny(ua, {<<"f","i","r","e","f","o","x","/">>}) THEN Some(<<"F","i","r","e","f","o","x">>)
    ELSE IF HasAny(ua, {<<"s","a","f","a","r","i","/">>}) THEN Some(<<"S","a","f","a","r","i">>)
    ELSE None

\* C12: in the heuristic fallback the browser family is the first match in
\* the order Edge, Opera, Chrome, Firefox, Safari, Chrome being skipped only
\* when an Edge or Opera marker is present and Safari only when the Chrome
\* marker is present; a user agent with the Chrome marker and no Edge or
\* Opera marker is Chrome, and the family is absent only when no marker
\* matches.
C12_BrowserOrder ==
    (ua_called /\ Heuristic /\ ua_string # <<>>) =>
        /\ info.browser.family = FirstBrowserFamily(ua_string)
        /\ (HasAny(ua_string, {<<"c","h","r","o","m","e","/">>})
              /\ ~HasAny(ua_string, EdgeMarkers \cup OperaMarkers))
             => info.browser.family = Some(<<"C","h","r","o","m","e">>)
        /\ info.browser.family = None =>
               ~HasAny(ua_string, EdgeMarkers \cup OperaMarkers \cup
                                   {<<"c","h","r","o","m","e","/">>, <<"f","i","r","e","f","o","x","/">>, <<"s","a","f","a","r","i","/">>})
====
